---- MODULE Spec2Model ----
(***************************************************************************)
(* Model of tools/netwatch_report.py: the analysis functions that          *)
(* report_month applies to the rows of one monthly log (group_segments,    *)
(* classify_segments, availability_from_rows, wan_quality and              *)
(* per_day_summary).                                                       *)
(*                                                                         *)
(* Representation.  A timestamp is a datetime: a calendar date <<y,m,d>>,  *)
(* a second of the day, and an optional UTC offset (aware/off).  A         *)
(* timedelta is a number of seconds.  Python's None is the empty sequence  *)
(* and a present value v is <<v>>.  A float quotient a/b is the pair       *)
(* <<a, b>>.  A str built by isoformat() is its sequence of character      *)
(* codes.                                                                  *)
(***************************************************************************)
EXTENDS Integers, Sequences, FiniteSets, TLC

\* Longest sample sequence drawn by the specifications below.
MaxLen == 3

VARIABLES rows, MIN_ROWS_FOR_OUTAGE, MIN_OUTAGE_SEC,
          pc, segs, outages, blips, degraded, avail, wan, daily

vars == <<rows, MIN_ROWS_FOR_OUTAGE, MIN_OUTAGE_SEC,
          pc, segs, outages, blips, degraded, avail, wan, daily>>

----------------------------------------------------------------------------
\* Generic helpers

RECURSIVE SumSeq(_)
SumSeq(s) == IF Len(s) = 0 THEN 0 ELSE Head(s) + SumSeq(Tail(s))

SeqsUpTo(S, n) == UNION {[1..k -> S] : k \in 0..n}

----------------------------------------------------------------------------
\* datetime arithmetic used by the script

IsLeap(y) == y % 4 = 0 /\ (y % 100 # 0 \/ y % 400 = 0)

DaysInMonth(y, m) ==
    IF m = 2 THEN (IF IsLeap(y) THEN 29 ELSE 28)
    ELSE IF m \in {4, 6, 9, 11} THEN 30 ELSE 31

RECURSIVE DaysBeforeMonth(_, _)
DaysBeforeMonth(y, m) ==
    IF m = 1 THEN 0 ELSE DaysBeforeMonth(y, m - 1) + DaysInMonth(y, m - 1)

\* date.toordinal(): days since 0001-01-01, proleptic Gregorian
Ordinal(date) ==
    LET y == date[1] - 1
    IN  y * 365 + (y \div 4) - (y \div 100) + (y \div 400)
          + DaysBeforeMonth(date[1], date[2]) + date[3]

\* datetime - datetime is defined only when both are naive or both aware
CanSubtract(a, b) == a.aware = b.aware

\* (a - b).total_seconds(); aware operands are compared as UTC instants
Sub(a, b) ==
    (Ordinal(a.date) - Ordinal(b.date)) * (24 * 3600) + (a.sec - b.sec)
      - (IF a.aware /\ b.aware THEN a.off - b.off ELSE 0)

\* Two decimal digits / four decimal digits as character codes ('0' is 48)
TwoDigits(n) == <<48 + ((n \div 10) % 10), 48 + (n % 10)>>

FourDigits(n) == <<48 + ((n \div 1000) % 10), 48 + ((n \div 100) % 10)>> \o TwoDigits(n)

\* ts.date().isoformat(): "YYYY-MM-DD" of the local calendar date ('-' is 45)
DayKey(ts) ==
    FourDigits(ts.date[1]) \o <<45>> \o TwoDigits(ts.date[2]) \o <<45>> \o TwoDigits(ts.date[3])

\* str < str: lexicographic comparison by character code
RECURSIVE StrLess(_, _)
StrLess(a, b) ==
    IF Len(b) = 0 THEN FALSE
    ELSE IF Len(a) = 0 THEN TRUE
    ELSE IF Head(a) # Head(b) THEN Head(a) < Head(b)
    ELSE StrLess(Tail(a), Tail(b))

----------------------------------------------------------------------------
\* Status vocabulary

OUTAGE_STATUSES == {"LINK_DOWN", "NO_GATEWAY", "GW_DOWN", "WAN_DOWN", "DNS_DOWN"}

DEGRADED_STATUSES == {"WAN_DEGRADED"}

as_bucket(status) ==
    IF status \in OUTAGE_STATUSES THEN "OUTAGE"
    ELSE IF status \in DEGRADED_STATUSES THEN "DEGRADED"
    ELSE "OK"

----------------------------------------------------------------------------
\* group_segments

NewSegment(r) ==
    [bucket |-> as_bucket(r.status), start |-> r.ts, end |-> r.ts,
     rows |-> 1, first_status |-> r.status]

\* variant: the extension forgets to count the row
ExtendSegment_NoCount(cur, r) == [cur EXCEPT !.end = r.ts]

\* variant: the extension counts the row but leaves end at the first sample
ExtendSegment_NoEnd(cur, r) == [cur EXCEPT !.rows = @ + 1]

ExtendSegment(cur, r) == [cur EXCEPT !.end = r.ts, !.rows = @ + 1]

\* the test that opens a new segment; cur is <<>> for None
OpensSegment(cur, bucket) == Len(cur) = 0 \/ bucket # cur[1].bucket

RECURSIVE GroupLoop(_, _, _, _)
GroupLoop(rs, i, sg, cur) ==
    IF i > Len(rs) THEN sg \o cur
    ELSE LET r == rs[i]
         IN  IF OpensSegment(cur, as_bucket(r.status))
             THEN GroupLoop(rs, i + 1, sg \o cur, <<NewSegment(r)>>)
             ELSE GroupLoop(rs, i + 1, sg, <<ExtendSegment(cur[1], r)>>)

group_segments(rs) == GroupLoop(rs, 1, <<>>, <<>>)

----------------------------------------------------------------------------
\* classify_segments

\* s["end"] - s["start"] raises TypeError on a naive/aware pair
DurRaises(s) == ~CanSubtract(s.end, s.start)

\* variant: operands of the subtraction swapped
SegDur_Swapped(s) == Sub(s.start, s.end)

SegDur(s) == Sub(s.end, s.start)

WithDur(s) ==
    [bucket |-> s.bucket, start |-> s.start, end |-> s.end, rows |-> s.rows,
     first_status |-> s.first_status, dur |-> SegDur(s)]

\* variant: the duration threshold is exclusive
Qualifies_Strict(s, minRows, minSec) == s.rows >= minRows \/ s.dur > minSec

Qualifies(s, minRows, minSec) == s.rows >= minRows \/ s.dur >= minSec

RECURSIVE ClassifyLoop(_, _, _, _, _)
ClassifyLoop(sg, i, acc, minRows, minSec) ==
    IF i > Len(sg) THEN acc
    ELSE IF DurRaises(sg[i]) THEN [acc EXCEPT !.raised = TRUE]
    ELSE LET s == WithDur(sg[i])
         IN  IF s.bucket = "DEGRADED"
             THEN ClassifyLoop(sg, i + 1, [acc EXCEPT !.degraded = Append(@, s)], minRows, minSec)
             ELSE IF s.bucket = "OK"
             THEN ClassifyLoop(sg, i + 1, acc, minRows, minSec)
             ELSE IF Qualifies(s, minRows, minSec)
             THEN ClassifyLoop(sg, i + 1, [acc EXCEPT !.outages = Append(@, s)], minRows, minSec)
             ELSE ClassifyLoop(sg, i + 1, [acc EXCEPT !.blips = Append(@, s)], minRows, minSec)

classify_segments(sg, minRows, minSec) ==
    ClassifyLoop(sg, 1, [outages |-> <<>>, blips |-> <<>>, degraded |-> <<>>, raised |-> FALSE],
                 minRows, minSec)

----------------------------------------------------------------------------
\* availability_from_rows

\* variant: no clock-jump guard
SkipPair_Never(dt) == FALSE

\* the clock-jump guard
SkipPair(dt) == dt < 0

\* variant: the later sample's status decides
PairIsOk_Later(prev, cur) == as_bucket(cur.status) = "OK"

\* whose status decides that a pair's interval was OK time
PairIsOk(prev, cur) == as_bucket(prev.status) = "OK"

AvailStep(acc, prev, cur) ==
    LET dt == Sub(cur.ts, prev.ts)
    IN  IF SkipPair(dt) THEN acc
        ELSE [acc EXCEPT !.total = @ + dt,
                         !.ok = IF PairIsOk(prev, cur) THEN @ + dt ELSE @]

RECURSIVE AvailLoop(_, _, _)
AvailLoop(rs, i, acc) ==
    IF i >= Len(rs) THEN acc
    ELSE IF ~CanSubtract(rs[i + 1].ts, rs[i].ts) THEN [acc EXCEPT !.raised = TRUE]
    ELSE AvailLoop(rs, i + 1, AvailStep(acc, rs[i], rs[i + 1]))

\* variant: no zero-window test, so the quotient has denominator 0
AvailResult_NoZeroTest(acc) ==
    [pct |-> <<acc.ok * 100, acc.total>>, total |-> acc.total, ok |-> acc.ok, raised |-> FALSE]

\* the returned triple; pct is the quotient <<numerator, denominator>>
AvailResult(acc) ==
    IF acc.total = 0
    THEN [pct |-> <<100, 1>>, total |-> acc.total, ok |-> acc.ok, raised |-> FALSE]
    ELSE [pct |-> <<acc.ok * 100, acc.total>>, total |-> acc.total, ok |-> acc.ok, raised |-> FALSE]

TooFewRows(rs) == Len(rs) < 2

availability_from_rows(rs) ==
    IF TooFewRows(rs)
    THEN [pct |-> <<100, 1>>, total |-> 0, ok |-> 0, raised |-> FALSE]
    ELSE LET acc == AvailLoop(rs, 1, [total |-> 0, ok |-> 0, raised |-> FALSE])
         IN  IF acc.raised
             THEN [pct |-> <<100, 1>>, total |-> acc.total, ok |-> acc.ok, raised |-> TRUE]
             ELSE AvailResult(acc)

----------------------------------------------------------------------------
\* wan_quality

WAN_DOWN_STATUSES == {"WAN_DOWN", "GW_DOWN", "NO_GATEWAY", "LINK_DOWN"}

RECURSIVE Insert(_, _)
Insert(sorted, v) ==
    IF Len(sorted) = 0 THEN <<v>>
    ELSE IF v < Head(sorted) THEN <<v>> \o sorted
    ELSE <<Head(sorted)>> \o Insert(Tail(sorted), v)

\* sorted(list of numbers)
RECURSIVE Sorted(_)
Sorted(s) == IF Len(s) = 0 THEN <<>> ELSE Insert(Sorted(SubSeq(s, 1, Len(s) - 1)), s[Len(s)])

RttKept(r) == Len(r.wan_rtt) = 1 /\ r.status \notin WAN_DOWN_STATUSES

LossKept(r) == Len(r.wan_loss) = 1 /\ r.status \notin WAN_DOWN_STATUSES

RECURSIVE Rtts(_)
Rtts(rs) ==
    IF Len(rs) = 0 THEN <<>>
    ELSE (IF RttKept(Head(rs)) THEN Head(rs).wan_rtt ELSE <<>>) \o Rtts(Tail(rs))

RECURSIVE Losses(_)
Losses(rs) ==
    IF Len(rs) = 0 THEN <<>>
    ELSE (IF LossKept(Head(rs)) THEN Head(rs).wan_loss ELSE <<>>) \o Losses(Tail(rs))

\* statistics.median: the middle value, or the mean of the two middle values
Median(data) ==
    LET sd == Sorted(data)
        n  == Len(sd)
    IN  IF n % 2 = 1 THEN <<sd[(n \div 2) + 1], 1>>
        ELSE <<sd[n \div 2] + sd[(n \div 2) + 1], 2>>

\* round(num/den) for num >= 0, den > 0: nearest integer, ties to the even one
Round(num, den) ==
    LET q == num \div den
        r == num % den
    IN  IF 2 * r < den THEN q
        ELSE IF 2 * r > den THEN q + 1
        ELSE IF q % 2 = 0 THEN q ELSE q + 1

\* variant: truncation instead of rounding
P95Index_Truncated(n) == (95 * (n - 1)) \div 100

\* max(0, int(round(0.95*(n-1)))), a 0-based index
P95Index(n) ==
    LET idx == Round(95 * (n - 1), 100)
    IN  IF idx > 0 THEN idx ELSE 0

P95(rtts) == Sorted(rtts)[P95Index(Len(rtts)) + 1]

wan_quality(rs) ==
    LET rtts   == Rtts(rs)
        losses == Losses(rs)
    IN  IF Len(rtts) = 0 /\ Len(losses) = 0 THEN <<>>
        ELSE <<[rtt_p50_ms    |-> IF Len(rtts) > 0 THEN Median(rtts) ELSE <<>>,
                rtt_p95_ms    |-> IF Len(rtts) > 0 THEN <<P95(rtts)>> ELSE <<>>,
                loss_mean_pct |-> IF Len(losses) > 0 THEN <<SumSeq(losses), Len(losses)>> ELSE <<>>,
                samples       |-> Len(rtts)]>>

----------------------------------------------------------------------------
\* per_day_summary; the dict is the sequence of its items in insertion order

ZeroDay(day) ==
    [day |-> day, outage_dur |-> 0, degraded_dur |-> 0, outages |-> 0, degraded |-> 0]

HasDay(d, day) == \E i \in 1..Len(d) : d[i].day = day

\* daily[day] on the defaultdict: creates the zero entry when missing
Touch(d, day) == IF HasDay(d, day) THEN d ELSE Append(d, ZeroDay(day))

\* variant: the segment is booked under the day it ends
SegDay_End(seg) == DayKey(seg.end)

\* the day an outage or degraded segment is booked under
SegDay(seg) == DayKey(seg.start)

RowDay(r) == DayKey(r.ts)

AddOutage(d, seg) ==
    LET t == Touch(d, SegDay(seg))
    IN  [i \in 1..Len(t) |->
            IF t[i].day = SegDay(seg)
            THEN [t[i] EXCEPT !.outages = @ + 1, !.outage_dur = @ + seg.dur]
            ELSE t[i]]

AddDegraded(d, seg) ==
    LET t == Touch(d, SegDay(seg))
    IN  [i \in 1..Len(t) |->
            IF t[i].day = SegDay(seg)
            THEN [t[i] EXCEPT !.degraded = @ + 1, !.degraded_dur = @ + seg.dur]
            ELSE t[i]]

RECURSIVE AddOutages(_, _)
AddOutages(d, sg) ==
    IF Len(sg) = 0 THEN d ELSE AddOutages(AddOutage(d, Head(sg)), Tail(sg))

RECURSIVE AddDegradeds(_, _)
AddDegradeds(d, sg) ==
    IF Len(sg) = 0 THEN d ELSE AddDegradeds(AddDegraded(d, Head(sg)), Tail(sg))

RECURSIVE AddRowDays(_, _)
AddRowDays(d, rs) ==
    IF Len(rs) = 0 THEN d ELSE AddRowDays(Touch(d, RowDay(Head(rs))), Tail(rs))

RECURSIVE InsertItem(_, _)
InsertItem(sorted, e) ==
    IF Len(sorted) = 0 THEN <<e>>
    ELSE IF StrLess(e.day, Head(sorted).day) THEN <<e>> \o sorted
    ELSE <<Head(sorted)>> \o InsertItem(Tail(sorted), e)

\* sorted(daily.items()): keys are distinct, so the key alone orders the items
RECURSIVE SortedItems(_)
SortedItems(d) ==
    IF Len(d) = 0 THEN <<>>
    ELSE InsertItem(SortedItems(SubSeq(d, 1, Len(d) - 1)), d[Len(d)])

per_day_summary(rs, outs, degs) ==
    SortedItems(AddRowDays(AddDegradeds(AddOutages(<<>>, outs), degs), rs))

----------------------------------------------------------------------------
\* Inputs: the rows read_rows yields (timestamp parsed, status stripped,
\* numeric fields parsed or None)

Row(ts, status, rtt, loss) ==
    [ts |-> ts, status |-> status, wan_rtt |-> rtt, wan_loss |-> loss]

Stamp(date, sec, aware, off) == [date |-> date, sec |-> sec, aware |-> aware, off |-> off]

\* 2024-01-09T23:59:50+00:00, 2024-01-10T00:00:00+00:00, 2024-01-10T00:00:10+00:00
\* and 2024-01-10T00:59:50+01:00 (the same instant as the first one)
AwareStamps ==
    { Stamp(<<2024, 1, 9>>, 86390, TRUE, 0), Stamp(<<2024, 1, 10>>, 0, TRUE, 0),
      Stamp(<<2024, 1, 10>>, 10, TRUE, 0),   Stamp(<<2024, 1, 10>>, 3590, TRUE, 3600) }

\* 2024-01-09T23:59:50 and 2024-01-10T00:00:00 without offset, and two with offset
MixedStamps ==
    { Stamp(<<2024, 1, 9>>, 86390, FALSE, 0), Stamp(<<2024, 1, 10>>, 0, FALSE, 0),
      Stamp(<<2024, 1, 9>>, 86390, TRUE, 0),  Stamp(<<2024, 1, 10>>, 0, TRUE, 0) }

SegStatuses == {"OK", "LINK_DOWN", "WAN_DEGRADED"}

SegRows == {Row(t, st, <<>>, <<>>) : t \in AwareStamps, st \in SegStatuses}

MixedRows == {Row(t, st, <<>>, <<>>) : t \in MixedStamps, st \in SegStatuses}

WanStamp == Stamp(<<2024, 1, 9>>, 86390, TRUE, 0)

WanRows ==
    {Row(WanStamp, st, rtt, <<>>) : st \in {"OK", "LINK_DOWN", "DNS_DOWN"},
                                    rtt \in {<<>>, <<10>>, <<20>>, <<30>>}}
      \cup {Row(WanStamp, "OK", <<>>, <<5>>), Row(WanStamp, "WAN_DEGRADED", <<10>>, <<5>>)}

\* n rows, all up, with RTTs 10, 20, ..., 10*n in ascending or descending order
RttRamp(n, ascending) ==
    [i \in 1..n |-> Row(WanStamp, "OK", <<10 * (IF ascending THEN i ELSE n + 1 - i)>>, <<>>)]

WanExamples ==
    {RttRamp(10, TRUE), RttRamp(10, FALSE), RttRamp(12, FALSE), RttRamp(31, FALSE)}

DefaultMinRows == {2}

DefaultMinSec == {20}

MinRowsChoices == {2, 3}

MinSecChoices == {10, 20}

----------------------------------------------------------------------------
\* State machine: the calls report_month makes on the rows of one log
\* (report_month itself returns early on a log without rows; the empty
\* sequence stays among the inputs because each function accepts it)

InitWith(inputs, minRows, minSec) ==
    /\ rows \in inputs
    /\ MIN_ROWS_FOR_OUTAGE \in minRows
    /\ MIN_OUTAGE_SEC \in minSec
    /\ pc = "group"
    /\ segs = <<>>
    /\ outages = <<>>
    /\ blips = <<>>
    /\ degraded = <<>>
    /\ avail = [pct |-> <<0, 1>>, total |-> 0, ok |-> 0]
    /\ wan = <<>>
    /\ daily = <<>>

Init == InitWith(SeqsUpTo(SegRows, MaxLen), MinRowsChoices, MinSecChoices)

InitWan == InitWith(SeqsUpTo(WanRows, MaxLen) \cup WanExamples, DefaultMinRows, DefaultMinSec)

InitMixed == InitWith(SeqsUpTo(MixedRows, MaxLen), DefaultMinRows, DefaultMinSec)

GroupSegments ==
    /\ pc = "group"
    /\ segs' = group_segments(rows)
    /\ pc' = "classify"
    /\ UNCHANGED <<rows, MIN_ROWS_FOR_OUTAGE, MIN_OUTAGE_SEC, outages, blips, degraded,
                   avail, wan, daily>>

ClassifySegments ==
    /\ pc = "classify"
    /\ LET res == classify_segments(segs, MIN_ROWS_FOR_OUTAGE, MIN_OUTAGE_SEC)
       IN  IF res.raised
           THEN /\ pc' = "raised"
                /\ UNCHANGED <<outages, blips, degraded>>
           ELSE /\ pc' = "availability"
                /\ outages' = res.outages
                /\ blips' = res.blips
                /\ degraded' = res.degraded
    /\ UNCHANGED <<rows, MIN_ROWS_FOR_OUTAGE, MIN_OUTAGE_SEC, segs, avail, wan, daily>>

AvailabilityFromRows ==
    /\ pc = "availability"
    /\ LET res == availability_from_rows(rows)
       IN  IF res.raised
           THEN /\ pc' = "raised"
                /\ UNCHANGED avail
           ELSE /\ pc' = "wan"
                /\ avail' = [pct |-> res.pct, total |-> res.total, ok |-> res.ok]
    /\ UNCHANGED <<rows, MIN_ROWS_FOR_OUTAGE, MIN_OUTAGE_SEC, segs, outages, blips, degraded,
                   wan, daily>>

WanQuality ==
    /\ pc = "wan"
    /\ wan' = wan_quality(rows)
    /\ pc' = "per_day"
    /\ UNCHANGED <<rows, MIN_ROWS_FOR_OUTAGE, MIN_OUTAGE_SEC, segs, outages, blips, degraded,
                   avail, daily>>

PerDaySummary ==
    /\ pc = "per_day"
    /\ daily' = per_day_summary(rows, outages, degraded)
    /\ pc' = "done"
    /\ UNCHANGED <<rows, MIN_ROWS_FOR_OUTAGE, MIN_OUTAGE_SEC, segs, outages, blips, degraded,
                   avail, wan>>

Next ==
    \/ GroupSegments
    \/ ClassifySegments
    \/ AvailabilityFromRows
    \/ WanQuality
    \/ PerDaySummary

Spec == Init /\ [][Next]_vars

SpecWan == InitWan /\ [][Next]_vars

SpecMixed == InitMixed /\ [][Next]_vars

\* positions of the call sequence
Grouped == pc # "group"

Classified == pc \in {"availability", "wan", "per_day", "done"}

AvailDone == pc \in {"wan", "per_day", "done"}

WanDone == pc \in {"per_day", "done"}

PerDayDone == pc = "done"

----------------------------------------------------------------------------
\* Vocabulary of the properties

\* the rows are in chronological order (non-decreasing instants)
Chronological(rs) == \A i \in 1..(Len(rs) - 1) : Sub(rs[i + 1].ts, rs[i].ts) >= 0

\* timestamp delta of the i-th consecutive pair of rows
Delta(i) == Sub(rows[i + 1].ts, rows[i].ts)

\* index in rows of the first and of the last sample of the k-th segment
FirstRow(k) == 1 + SumSeq([j \in 1..(k - 1) |-> segs[j].rows])

LastRow(k) == SumSeq([j \in 1..k |-> segs[j].rows])

\* a classified segment without its dur field
Core(s) ==
    [bucket |-> s.bucket, start |-> s.start, end |-> s.end, rows |-> s.rows,
     first_status |-> s.first_status]

Count(sq, v) == Cardinality({i \in 1..Len(sq) : sq[i] = v})

----------------------------------------------------------------------------
\* C1: group_segments returns segments in which no two adjacent segments have
\* the same bucket, every segment has rows >= 1, and the rows of the segments
\* sum to the number of input samples; empty input yields no segment.
C1_SegmentsPartitionRows ==
    Grouped =>
        /\ \A k \in 1..(Len(segs) - 1) : segs[k].bucket # segs[k + 1].bucket
        /\ \A k \in 1..Len(segs) : segs[k].rows >= 1
        /\ SumSeq([k \in 1..Len(segs) |-> segs[k].rows]) = Len(rows)
        /\ (Len(rows) = 0 => segs = <<>>)

C1_Witness ==
    /\ Grouped
    /\ Len(segs) = 2
    /\ \E k \in 1..Len(segs) : segs[k].rows = 2

\* C2: an OUTAGE-bucket segment is put in outages iff rows >= MIN_ROWS_FOR_OUTAGE
\* or its duration in seconds >= MIN_OUTAGE_SEC (both inclusive), and in blips
\* otherwise; with thresholds 2 rows / 20 s a single isolated outage sample
\* (rows = 1, duration = 0) is a blip and not an outage.
C2_Meets(s) ==
    s.rows >= MIN_ROWS_FOR_OUTAGE \/ Sub(s.end, s.start) >= MIN_OUTAGE_SEC

C2_OutageIffThreshold ==
    Classified =>
        /\ \A k \in 1..Len(segs) :
              segs[k].bucket = "OUTAGE" =>
                 LET inOutages == Count([j \in 1..Len(outages) |-> Core(outages[j])], segs[k])
                     inBlips   == Count([j \in 1..Len(blips) |-> Core(blips[j])], segs[k])
                 IN  /\ C2_Meets(segs[k]) => inOutages >= 1 /\ inBlips = 0
                     /\ ~C2_Meets(segs[k]) => inBlips >= 1 /\ inOutages = 0
                     /\ (MIN_ROWS_FOR_OUTAGE = 2 /\ MIN_OUTAGE_SEC = 20 /\ segs[k].rows = 1)
                           => inBlips >= 1 /\ inOutages = 0
        /\ Len(outages) + Len(blips) = Cardinality({k \in 1..Len(segs) : segs[k].bucket = "OUTAGE"})
        /\ \A j \in 1..Len(outages) : outages[j].bucket = "OUTAGE"
        /\ \A j \in 1..Len(blips) : blips[j].bucket = "OUTAGE"

\* a segment below the row threshold whose duration equals the seconds threshold
C2_Witness ==
    /\ Classified
    /\ \E j \in 1..Len(outages) :
          outages[j].rows < MIN_ROWS_FOR_OUTAGE /\ outages[j].dur = MIN_OUTAGE_SEC

\* C3: for rows in chronological order, each segment starts at the timestamp
\* of the first sample of its run and ends at that of the last, start <= end,
\* and each segment's end is <= the next segment's start.
C3_SegmentsOrdered ==
    (Grouped /\ Chronological(rows)) =>
        /\ \A k \in 1..Len(segs) :
              /\ segs[k].start = rows[FirstRow(k)].ts
              /\ segs[k].end = rows[LastRow(k)].ts
              /\ Sub(segs[k].end, segs[k].start) >= 0
        /\ \A k \in 1..(Len(segs) - 1) : Sub(segs[k + 1].start, segs[k].end) >= 0

C3_Witness ==
    /\ Grouped
    /\ Chronological(rows)
    /\ Len(segs) = 2
    /\ \E k \in 1..Len(segs) : segs[k].rows = 2 /\ Sub(segs[k].end, segs[k].start) > 0

\* C4: observed_window is the sum of the non-negative consecutive timestamp
\* deltas and ok_time the sum of those whose earlier sample is in the OK
\* bucket; a negative delta contributes to neither.
C4_AvailabilitySums ==
    AvailDone =>
        /\ avail.total =
              SumSeq([i \in 1..(Len(rows) - 1) |-> IF Delta(i) >= 0 THEN Delta(i) ELSE 0])
        /\ avail.ok =
              SumSeq([i \in 1..(Len(rows) - 1) |->
                        IF Delta(i) >= 0 /\ as_bucket(rows[i].status) = "OK" THEN Delta(i) ELSE 0])

\* a negative pair, and a positive pair from an OK sample to a non-OK one
C4_Witness ==
    /\ AvailDone
    /\ \E i \in 1..(Len(rows) - 1) : Delta(i) < 0
    /\ \E i \in 1..(Len(rows) - 1) :
          /\ Delta(i) > 0
          /\ as_bucket(rows[i].status) = "OK"
          /\ as_bucket(rows[i + 1].status) # "OK"

\* every sample is in the OK bucket
AllOk == \A i \in 1..Len(rows) : as_bucket(rows[i].status) = "OK"

\* seconds from the earliest to the latest sample
Span ==
    LET ds == {Sub(rows[i].ts, rows[j].ts) : i, j \in 1..Len(rows)}
    IN  CHOOSE d \in ds : \A e \in ds : e <= d

\* the availability percentage lies in [0, 100] / is exactly 100
PctInRange == avail.pct[2] > 0 /\ 0 <= avail.pct[1] /\ avail.pct[1] <= 100 * avail.pct[2]

PctIs100 == avail.pct[2] > 0 /\ avail.pct[1] = 100 * avail.pct[2]

\* C5 as stated: availability is within [0, 100] with 0 <= ok_time <=
\* observed_window, and for all-OK samples spanning T seconds availability is
\* 100% and observed_window = ok_time = T, for every sample sequence.
C5_AllOkSpanAnyOrder ==
    AvailDone =>
        /\ PctInRange
        /\ 0 <= avail.ok /\ avail.ok <= avail.total
        /\ (AllOk /\ Len(rows) >= 1) =>
              PctIs100 /\ avail.total = Span /\ avail.ok = Span

\* C5 amended: availability is within [0, 100] with 0 <= ok_time <=
\* observed_window for every sample sequence; all-OK samples give 100% and
\* observed_window = ok_time; and when they are also in chronological order
\* and span T seconds, observed_window = ok_time = T.
C5_AllOkSpanChronological ==
    AvailDone =>
        /\ PctInRange
        /\ 0 <= avail.ok /\ avail.ok <= avail.total
        /\ AllOk => PctIs100 /\ avail.ok = avail.total
        /\ (AllOk /\ Len(rows) >= 1 /\ Chronological(rows)) =>
              avail.total = Span /\ avail.total = Sub(rows[Len(rows)].ts, rows[1].ts)

C5_Witness ==
    /\ AvailDone
    /\ AllOk
    /\ Len(rows) = 3
    /\ Chronological(rows)
    /\ avail.total = 20

\* C6: availability_pct is exactly 100.0 with zero or one sample, and whenever
\* the observed window is zero (every consecutive delta is zero or negative),
\* whatever the statuses.
C6_DefaultsTo100 ==
    AvailDone =>
        ((Len(rows) < 2 \/ \A i \in 1..(Len(rows) - 1) : Delta(i) <= 0) => PctIs100)

\* two or more samples, none OK, a zero delta and a negative one
C6_Witness ==
    /\ AvailDone
    /\ PctIs100
    /\ Len(rows) = 3
    /\ \A i \in 1..Len(rows) : as_bucket(rows[i].status) # "OK"
    /\ Delta(1) = 0
    /\ Delta(2) < 0

\* the calendar date <<y, m, d>> that a "YYYY-MM-DD" key denotes
C7_KeyDate(k) ==
    << (k[1] - 48) * 1000 + (k[2] - 48) * 100 + (k[3] - 48) * 10 + (k[4] - 48),
       (k[6] - 48) * 10 + (k[7] - 48),
       (k[9] - 48) * 10 + (k[10] - 48) >>

C7_Starting(sg, date) == {j \in 1..Len(sg) : sg[j].start.date = date}

C7_DurOn(sg, date) == SumSeq([j \in 1..Len(sg) |-> IF sg[j].start.date = date THEN sg[j].dur ELSE 0])

\* C7: per_day_summary has a key for every calendar date of the raw rows,
\* dates without events carrying zeros; every confirmed outage and degraded
\* segment is counted, with its duration, under the local calendar date of its
\* start only; and the keys are in ascending date order.
C7_PerDayKeys ==
    PerDayDone =>
        /\ \A i \in 1..Len(daily) : Len(daily[i].day) = 10
        /\ {C7_KeyDate(daily[i].day) : i \in 1..Len(daily)} = {rows[i].ts.date : i \in 1..Len(rows)}
        /\ \A i, j \in 1..Len(daily) :
              i < j => Ordinal(C7_KeyDate(daily[i].day)) < Ordinal(C7_KeyDate(daily[j].day))
        /\ \A i \in 1..Len(daily) :
              LET date == C7_KeyDate(daily[i].day)
              IN  /\ daily[i].outages = Cardinality(C7_Starting(outages, date))
                  /\ daily[i].outage_dur = C7_DurOn(outages, date)
                  /\ daily[i].degraded = Cardinality(C7_Starting(degraded, date))
                  /\ daily[i].degraded_dur = C7_DurOn(degraded, date)

\* an outage that starts on one date and ends on the next, which has no event
C7_Witness ==
    /\ PerDayDone
    /\ Len(daily) = 2
    /\ daily[1].outages = 1 /\ daily[1].outage_dur = 10
    /\ daily[2] = ZeroDay(daily[2].day)
    /\ \E j \in 1..Len(outages) : outages[j].start.date # outages[j].end.date

\* indices of the rows whose RTT passes the WAN filter
C8_Kept ==
    {i \in 1..Len(rows) :
        /\ Len(rows[i].wan_rtt) = 1
        /\ rows[i].status \notin {"WAN_DOWN", "GW_DOWN", "NO_GATEWAY", "LINK_DOWN"}}

\* idx is 0.95*(n-1) rounded to the nearest integer (a tie goes to the even one)
C8_NearestRank(idx, n) ==
    LET d == 20 * idx - 19 * (n - 1)
    IN  d \in -10..10 /\ (d \in {-10, 10} => idx % 2 = 0)

\* C8: with n >= 1 RTT values passing the WAN filter, p95 is the element at
\* index round(0.95*(n-1)) of the ascending-sorted values, the index lies in
\* [0, n-1], and p95 is one of the input values; for the ten RTTs 10, 20, ...,
\* 100 the index is 9 and p95 is 100.
C8_P95NearestRank ==
    (WanDone /\ C8_Kept # {}) =>
        /\ Len(wan) = 1
        /\ Len(wan[1].rtt_p95_ms) = 1
        /\ LET v == wan[1].rtt_p95_ms[1]
               n == Cardinality(C8_Kept)
           IN  /\ \E i \in C8_Kept : rows[i].wan_rtt[1] = v
               /\ \E idx \in 0..(n - 1) :
                     /\ C8_NearestRank(idx, n)
                     /\ Cardinality({i \in C8_Kept : rows[i].wan_rtt[1] < v}) <= idx
                     /\ Cardinality({i \in C8_Kept : rows[i].wan_rtt[1] <= v}) >= idx + 1
               /\ rows = RttRamp(10, TRUE) => (v = 100 /\ C8_NearestRank(9, 10))

\* twelve RTTs 120, 110, ..., 10: the index is 10 and p95 is 110, not the maximum
C8_Witness ==
    /\ WanDone
    /\ Cardinality(C8_Kept) = 12
    /\ wan[1].rtt_p95_ms = <<110>>

\* C9: for any sequence of valid samples (every timestamp accepted by the
\* ISO-8601 parser, out of order or of mixed forms) and valid thresholds, no
\* function of the core ends in an exception.
C9_CoreNeverRaises == pc # "raised"

\* sum of the durations of the outages, blips and degraded segments
C10_NonOkDur ==
    SumSeq([j \in 1..Len(outages) |-> outages[j].dur])
      + SumSeq([j \in 1..Len(blips) |-> blips[j].dur])
      + SumSeq([j \in 1..Len(degraded) |-> degraded[j].dur])

\* sum of the gaps between the last sample of each non-OK segment and the
\* sample that follows it
C10_GapSum ==
    SumSeq([k \in 1..Len(segs) |->
              IF segs[k].bucket # "OK" /\ LastRow(k) < Len(rows) THEN Delta(LastRow(k)) ELSE 0])

\* C10: for rows with non-decreasing timestamps the durations of all non-OK
\* segments sum to at most observed_window - ok_time, and the difference is
\* exactly the sum of the gaps that follow the non-OK segments.
C10_EventsWithinDowntime ==
    (AvailDone /\ Chronological(rows)) =>
        /\ C10_NonOkDur <= avail.total - avail.ok
        /\ (avail.total - avail.ok) - C10_NonOkDur = C10_GapSum

C10_Witness ==
    /\ AvailDone
    /\ Chronological(rows)
    /\ C10_NonOkDur = 10
    /\ C10_GapSum = 10

====
